---- MODULE Spec2Model ----
(***************************************************************************)
(* Contact API (Node/Express): the request pipeline of src/server.js and   *)
(* of its second entry point src/unnamed/part_000.                         *)
(*                                                                         *)
(*   cors -> express.json -> globalLimiter -> route dispatch               *)
(*        -> contactLimiter -> validateContactRequest -> async handler     *)
(*        -> transporter.verify() -> transporter.sendMail() -> response    *)
(*                                                                         *)
(* One action per middleware / handler / promise continuation.  The        *)
(* requests being served form a bag; a request leaves it once its response *)
(* has been written.  Time advances in ticks of TickMs.                    *)
(***************************************************************************)
EXTENDS Integers, Sequences, FiniteSets, Bags, TLC

VARIABLES
  build,    \* which entry point runs: "server_js" or "part_000"
  env,      \* process.env: the required variables that are set
  load,     \* the clients served: what requests are drawn from
  gStore,   \* globalLimiter's store: key -> window
  cStore,   \* contactLimiter's store: key -> window
  req       \* the requests being served, a bag of request records

vars == <<build, env, load, gStore, cStore, req>>

(* ------------------------------ bounds -------------------------------- *)
\* requests served at the same time under the concurrent load
MaxInFlight == 2
\* requests a limiter counts beyond its max before the model stops counting
MaxOver == 2

\* one tick of the clock, in milliseconds (both windows are multiples of it)
TickMs == 15 * 60 * 1000

(* --------------------------- JSON values ------------------------------ *)
\* A JSON value of req.body: a string is a sequence of one-character strings.
Undefined == [t |-> "undefined", s |-> <<>>, n |-> 0]
Str(s) == [t |-> "string", s |-> s, n |-> 0]
Num(n) == [t |-> "number", s |-> <<>>, n |-> n]

\* JavaScript truthiness (!x is ~Truthy(x))
Truthy(v) == \/ v.t = "string" /\ Len(v.s) > 0
             \/ v.t = "number" /\ v.n # 0

\* a || b
OrElse(a, b) == IF Truthy(a) THEN a ELSE b

IsString(v) == v.t = "string"

\* v.length > n : a number has no length, and undefined > n is false
LengthOver(v, n) == v.t = "string" /\ Len(v.s) > n

Whitespace == {" "}

RECURSIVE TrimStart(_)
TrimStart(s) == IF s # <<>> /\ Head(s) \in Whitespace THEN TrimStart(Tail(s)) ELSE s

RECURSIVE TrimEnd(_)
TrimEnd(s) ==
  IF s # <<>> /\ s[Len(s)] \in Whitespace THEN TrimEnd(SubSeq(s, 1, Len(s) - 1)) ELSE s

\* String.prototype.trim
Trim(s) == TrimEnd(TrimStart(s))

\* String.prototype.substring(0, n)
Substring0(s, n) == SubSeq(s, 1, IF Len(s) < n THEN Len(s) ELSE n)

\* The lower-case mapping of one UTF-16 code unit.  "U+0130" (capital I with dot
\* above) is the one code unit whose lower case is two code units long
\* (Unicode SpecialCasing: 0130 -> 0069 0307); "U+0307" is the combining dot.
LowerChar(c) ==
  CASE c = "A" -> <<"a">>
    [] c = "J" -> <<"j">>
    [] c = "U+0130" -> <<"i", "U+0307">>
    [] OTHER -> <<c>>

\* String.prototype.toLowerCase: the lower-case mappings of the code units of
\* s, one after the other.  second is where the second code units of the
\* two-unit mappings land in the result.
ToLowerCase(s) ==
  LET wide == {j \in 1..Len(s) : Len(LowerChar(s[j])) = 2}
      second == {j + Cardinality({i \in wide : i < j}) + 1 : j \in wide}
  IN  [k \in 1..(Len(s) + Cardinality(wide)) |->
         LET i == k - Cardinality({x \in second : x <= k})
         IN  IF k \in second THEN LowerChar(s[i])[2] ELSE LowerChar(s[i])[1]]

\* n copies of the character c
Rep(c, n) == [i \in 1..n |-> c]


(* ------------------------------ HELPERS ------------------------------- *)
\* The address of the TCP peer (the platform's router, or a direct caller).
SocketAddr == "S"

\* req.ip under app.set("trust proxy", 1): the right-most X-Forwarded-For
\* entry when the header is present, else the socket's peer address.
\* A header is the sequence of its comma-separated entries.
ReqIp(xff) == IF xff = <<>> THEN <<SocketAddr>> ELSE <<xff[Len(xff)]>>

\* server.js getClientIp: the first X-Forwarded-For entry, else req.ip
getClientIp(xff) == IF xff # <<>> THEN <<xff[1]>> ELSE ReqIp(xff)

\* part_000 contactLimiter.keyGenerator: the whole header, else req.ip
HeaderOrIp(xff) == IF xff # <<>> THEN xff ELSE ReqIp(xff)

(* -------------------------------- CORS -------------------------------- *)
allowedOrigins ==
  {"https://jalwan.app", "https://www.jalwan.app",
   "http://localhost:3000", "http://localhost:3001"}

\* corsOptions.origin: TRUE when callback(null, true), FALSE when
\* callback(new Error("CORS policy violation")).  "" is an absent header.
corsOrigin(origin) == origin = "" \/ origin \in allowedOrigins

(* ---------------------------- VALIDATION ------------------------------ *)
\* [^\s@]+ : a non-empty run without whitespace and without "@"
NoSpaceNoAt(s) == s # <<>> /\ \A i \in 1..Len(s) : s[i] \notin (Whitespace \cup {"@"})

\* /^[^\s@]+@[^\s@]+\.[^\s@]+$/.test(s)
EmailRegex(s) ==
  \E i \in 1..Len(s) :
    /\ s[i] = "@"
    /\ NoSpaceNoAt(SubSeq(s, 1, i - 1))
    /\ \E j \in (i + 1)..Len(s) :
         /\ s[j] = "."
         /\ NoSpaceNoAt(SubSeq(s, i + 1, j - 1))
         /\ NoSpaceNoAt(SubSeq(s, j + 1, Len(s)))

isValidEmail(email) ==
  IsString(email) /\ EmailRegex(email.s) /\ Len(email.s) <= 254

\* A url field: absent, a string new URL() rejects, or a string it parses
\* into a protocol and a hostname (the sequence of its dot-separated labels).
NoUrl == [kind |-> "absent", protocol |-> "", hostname |-> <<>>]
BadUrl == [kind |-> "unparseable", protocol |-> "", hostname |-> <<>>]
Url(protocol, hostname) == [kind |-> "url", protocol |-> protocol, hostname |-> hostname]

\* the second label of 172.16.x.x - 172.31.x.x : (1[6-9]|2[0-9]|3[01])
Private172 ==
  {"16", "17", "18", "19", "20", "21", "22", "23",
   "24", "25", "26", "27", "28", "29", "30", "31"}

\* server.js privateHosts.some(r => r.test(u.hostname))
privateHosts(h) ==
  \/ h = <<"localhost">>
  \/ Len(h) >= 2 /\ h[1] = "127"
  \/ Len(h) >= 2 /\ h[1] = "10"
  \/ Len(h) >= 3 /\ h[1] = "192" /\ h[2] = "168"
  \/ Len(h) >= 3 /\ h[1] = "172" /\ h[2] \in Private172
  \/ h = <<"::1">>

\* part_000 privatePatterns.some(pattern => pattern.test(hostname))
privatePatterns(h) ==
  \/ h = <<"localhost">>
  \/ h = <<"127", "0", "0", "1">>
  \/ h = <<"::1">>
  \/ Len(h) >= 3 /\ h[1] = "192" /\ h[2] = "168"
  \/ Len(h) >= 2 /\ h[1] = "10"
  \/ Len(h) >= 3 /\ h[1] = "172" /\ h[2] \in Private172

isValidUrl(b, url) ==
  /\ url.kind = "url"
  /\ url.protocol \in {"http:", "https:"}
  /\ IF b = "server_js" THEN ~privateHosts(url.hostname)
                         ELSE ~privatePatterns(url.hostname)

\* const finalMessage = message || description || "";
finalMessage(body) == OrElse(OrElse(body.message, body.description), Str(<<>>))

\* server.js validateContactRequest.  "next" is next(); "throw" is the
\* TypeError of name.trim() on a value without a trim method; any other
\* result is the field of the 400 response.
validateServer(body) ==
  LET name == body.name
      fm == finalMessage(body)
  IN  IF ~Truthy(name) THEN "name"
      ELSE IF ~IsString(name) THEN "throw"
      ELSE IF Len(Trim(name.s)) < 2 \/ Len(name.s) > 100 THEN "name"
      ELSE IF ~isValidEmail(body.email) THEN "email"
      ELSE IF ~isValidUrl("server_js", body.url) THEN "url"
      ELSE IF Truthy(fm) /\ LengthOver(fm, 500) THEN "message"
      ELSE "next"

\* part_000 validateContactRequest
validatePart(body) ==
  LET name == body.name
      fm == finalMessage(body)
  IN  IF ~Truthy(name) \/ ~IsString(name) \/ Len(Trim(name.s)) < 2 THEN "name"
      ELSE IF Len(name.s) > 100 THEN "name"
      ELSE IF ~isValidEmail(body.email) THEN "email"
      ELSE IF ~isValidUrl("part_000", body.url) THEN "url"
      ELSE IF Truthy(fm) /\ IsString(fm) /\ Len(fm.s) > 500 THEN "message"
      ELSE "next"

validateContactRequest(b, body) ==
  IF b = "server_js" THEN validateServer(body) ELSE validatePart(body)

(* ---------------------------- SANITIZING ------------------------------ *)
\* const sanitizedName = name.trim().substring(0, 100);
sanitizedName(name) == Substring0(Trim(name), 100)

\* an email that is trimmed and keeps its case
TrimmedOnly(b, email) == Trim(email)

\* server.js: email.trim().toLowerCase(); part_000: email.toLowerCase().trim()
sanitizedEmail(b, email) ==
  IF b = "server_js" THEN ToLowerCase(Trim(email)) ELSE Trim(ToLowerCase(email))

\* finalMessage ? finalMessage.trim().substring(0, 500) : ""
sanitizedMessage(msg) == Substring0(Trim(msg), 500)

\* The handler's statements before its configuration check raise a TypeError
\* exactly when finalMessage is truthy and has no trim method (name and email
\* are strings once the validator has called next()).
SanitizeThrows(body) ==
  \/ ~IsString(body.name)
  \/ ~IsString(body.email)
  \/ Truthy(finalMessage(body)) /\ ~IsString(finalMessage(body))


(* --------------------------- RATE LIMITING ---------------------------- *)
\* globalLimiter: windowMs: 15 * 60 * 1000, max: 5
globalWindowMs == 15 * 60 * 1000
\* a limit of one more than configured
globalMaxPlusOne == 5 + 1
globalMax == 5

\* contactLimiter: windowMs: 60 * 60 * 1000, max: 3
contactWindowMs == 60 * 60 * 1000
\* a limit of one more than configured
contactMaxPlusOne == 3 + 1
contactMax == 3

\* globalLimiter.skip
globalSkip(route) == route.path = "/health"

\* globalLimiter has no keyGenerator: the key is req.ip
globalKey(xff) == ReqIp(xff)

\* contactLimiter.keyGenerator
contactKey(b, xff) == IF b = "server_js" THEN getClientIp(xff) ELSE HeaderOrIp(xff)

\* A key's window in a limiter's store.  remaining is resetTime - Date.now(),
\* the time left until the window ends; accepted counts the requests the
\* limiter let through in the window (kept for the properties only).
NoWindow == [hits |-> 0, remaining |-> 0, accepted |-> 0]

\* the stored window has ended (or the key has none): resetTime <= now
Elapsed(e) == e.remaining <= 0

\* The store's increment: look up or create the key's window, start a new
\* one when the stored one has elapsed, and count the request.
Increment(store, key, windowMs) ==
  LET e == store[key]
  IN  IF Elapsed(e)
        THEN [hits |-> 1, remaining |-> windowMs, accepted |-> 0]
        ELSE [e EXCEPT !.hits = @ + 1]

\* The limiter's decision on the count the store returned
OverLimit(hits, max) == hits > max

\* The store after a request: its window counted, and accepted when under max
Counted(store, key, windowMs, max) ==
  LET e == Increment(store, key, windowMs)
  IN  [store EXCEPT ![key] =
         [e EXCEPT !.accepted = IF OverLimit(e.hits, max) THEN @ ELSE @ + 1]]

\* TickMs later
Later(store) ==
  [k \in DOMAIN store |->
     [store[k] EXCEPT !.remaining = IF @ > TickMs THEN @ - TickMs ELSE 0]]

(* ------------------------------ inputs -------------------------------- *)
GetHealth == [method |-> "GET", path |-> "/health"]
PostContact == [method |-> "POST", path |-> "/contact"]
GetOther == [method |-> "GET", path |-> "/other"]
Routes == {GetHealth, PostContact, GetOther}

Origins == {"", "https://jalwan.app", "https://evil.example"}

\* X-Forwarded-For headers: one entry, two entries
Xffs == {<<"A">>, <<"B", "A">>}

Keys == {globalKey(x) : x \in Xffs} \cup {getClientIp(x) : x \in Xffs}
          \cup {HeaderOrIp(x) : x \in Xffs}

JoSmith == <<"J", "o", " ", "S", "m", "i", "t", "h">>
JoEmail == <<"J", "o", "@", "b", ".", "c">>
\* 254 code units, the longest email isValidEmail accepts, the first U+0130
LongEmail == <<"U+0130">> \o Rep("a", 249) \o <<"@", "b", ".", "c">>
ExampleCom == Url("https:", <<"app", "example", "com">>)

\* {name:" Jo Smith ", email:"Jo@b.c", url:"https://app.example.com", message:"hi"}
GoodBody ==
  [name |-> Str(<<" ">> \o JoSmith \o <<" ">>), email |-> Str(JoEmail),
   url |-> ExampleCom, message |-> Str(<<"h", "i">>), description |-> Undefined]

\* The submissions a request's body is drawn from
Bodies ==
  {GoodBody,
   [GoodBody EXCEPT !.message = Undefined, !.description = Str(<<"h", "i">>)],
   [GoodBody EXCEPT !.name = Undefined],
   [GoodBody EXCEPT !.name = Num(42)],
   [GoodBody EXCEPT !.name = Str(<<" ", "a", " ">>)],
   [GoodBody EXCEPT !.name = Str(Rep("a", 101))],
   [GoodBody EXCEPT !.email = Str(<<"a", "b">>)],
   [GoodBody EXCEPT !.url = Url("http:", <<"localhost">>)],
   [GoodBody EXCEPT !.message = Num(5)],
   [GoodBody EXCEPT !.message = Str(Rep("a", 501))]}

\* Field values at and around the validator's limits
EdgeNames ==
  {Str(<<" ">> \o JoSmith \o <<" ">>), Str(<<" ", "a", " ">>),
   Str(<<" ">> \o Rep("a", 98) \o <<" ">>), Str(Rep("a", 100)),
   Str(Rep("a", 99) \o <<" ", "b">>)}
EdgeEmails ==
  {Str(JoEmail), Str(<<" ">> \o JoEmail), Str(LongEmail), Str(<<"a">> \o LongEmail)}
EdgeMessages ==
  {Undefined, Str(<<" ">>), Str(<<" ", "h", "i", " ">>),
   Str(<<" ">> \o Rep("a", 498) \o <<" ">>), Str(Rep("a", 501))}
EdgeBodies ==
  {[GoodBody EXCEPT !.name = n, !.email = e, !.message = m] :
     n \in EdgeNames, e \in EdgeEmails, m \in EdgeMessages}

NoBody ==
  [name |-> Undefined, email |-> Undefined, url |-> NoUrl,
   message |-> Undefined, description |-> Undefined]

\* process.env: the set of the required variables that are set
Required == {"SMTP_HOST", "SMTP_USER", "SMTP_PASS", "TO_EMAIL"}
Envs == {Required} \cup {Required \ {v} : v \in Required}

\* the handler's configuration check
Configured(e) ==
  "SMTP_HOST" \in e /\ "SMTP_USER" \in e /\ "SMTP_PASS" \in e /\ "TO_EMAIL" \in e

\* One client sending any request, one request at a time
Sequential ==
  [inflight |-> 1, routes |-> Routes, origins |-> Origins, xffs |-> {<<"A">>},
   bodies |-> Bodies, parses |-> BOOLEAN, envs |-> Envs]

\* Clients sending well-formed requests at the same time
Concurrent ==
  [inflight |-> MaxInFlight, routes |-> {PostContact, GetOther}, origins |-> {""},
   xffs |-> {<<"B", "A">>}, bodies |-> {GoodBody}, parses |-> {TRUE}, envs |-> {Required}]

\* One client submitting the edge values to a configured server
Submitting ==
  [inflight |-> 1, routes |-> {PostContact, GetHealth}, origins |-> {""},
   xffs |-> {<<"A">>}, bodies |-> EdgeBodies, parses |-> {TRUE}, envs |-> {Required}]

(* ------------------------------- state -------------------------------- *)
NoMail == [replyTo |-> <<>>, subject |-> <<>>, text |-> <<>>]

\* A request as it arrives
NewRequest(route, origin) ==
  [pc |-> "cors", route |-> route, origin |-> origin,
   xff |-> <<>>, body |-> NoBody, passed |-> <<>>, status |-> 0, by |-> "",
   threw |-> FALSE, verifies |-> 0, sends |-> 0, mail |-> NoMail]

InFlight == BagToSet(req)

InitWith(loads) ==
  /\ build \in {"server_js", "part_000"}
  /\ load \in loads
  /\ env \in load.envs
  /\ gStore = [k \in Keys |-> NoWindow]
  /\ cStore = [k \in Keys |-> NoWindow]
  /\ req = EmptyBag

Init == InitWith({Sequential, Concurrent})

\* res.status(status).json(...) written by stage `by`: the request is over
Respond(q, status, by) == [q EXCEPT !.pc = "done", !.status = status, !.by = by]

\* next(): stage `stage` passed, the request goes on at `pc`
Passed(q, stage, pc) == [q EXCEPT !.pc = pc, !.passed = Append(@, stage)]

\* The error-handling middleware app.use((err, req, res, next) => ...).
\* err is [message, status]; status 0 is an error without a status property.
errorHandler(b, q, err) ==
  LET status ==
        IF err.message = "CORS policy violation" THEN 403
        ELSE IF b = "server_js" THEN 500
        ELSE IF err.status # 0 THEN err.status ELSE 500
  IN  [Respond(q, status, "errorHandler") EXCEPT !.threw = TRUE]

CorsError == [message |-> "CORS policy violation", status |-> 0]
ParseError == [message |-> "Unexpected token", status |-> 400]
TypeError == [message |-> "trim is not a function", status |-> 0]

(* ------------------------------ message ------------------------------- *)
Line(label, value) == [label |-> label, value |-> value]

\* The lines of emailBody / body after .filter(Boolean): a null entry (no
\* message) and, in server.js, the "" entry are dropped.
emailBody(b, body, xff) ==
  LET msg == sanitizedMessage(finalMessage(body).s)
      head == <<Line("Name: ", sanitizedName(body.name.s)),
                Line("Email: ", sanitizedEmail(b, body.email.s)),
                Line("Web App URL: ", body.url)>>
      opt == IF msg # <<>> THEN <<Line("Message: ", msg)>> ELSE <<>>
      meta == IF b = "server_js"
                THEN <<Line("---- META ----", <<>>),
                       Line("IP Address: ", getClientIp(xff))>>
                ELSE <<>>
  IN  head \o opt \o meta

\* The argument of transporter.sendMail
OutboundMessage(b, body, xff) ==
  [replyTo |-> sanitizedEmail(b, body.email.s),
   subject |-> sanitizedName(body.name.s),
   text |-> emailBody(b, body, xff)]

(* ------------------------------ actions ------------------------------- *)
\* request q goes on as q2
Step(q, q2) == req' = (req (-) SetToBag({q})) (+) SetToBag({q2})

\* cors(corsOptions): a rejected origin goes to the error handler, any other
\* request on to express.json
\* an origin guard that lets every origin through
AnyOrigin(q) == Passed(q, "cors", "json")

Cors(q) ==
  IF corsOrigin(q.origin) THEN Passed(q, "cors", "json")
                          ELSE errorHandler(build, q, CorsError)

\* A request arrives and runs helmet and cors(corsOptions).
Arrive ==
  /\ BagCardinality(req) < load.inflight
  /\ \E route \in load.routes, origin \in load.origins :
       req' = req (+) SetToBag({Cors(NewRequest(route, origin))})
  /\ UNCHANGED <<build, env, load, gStore, cStore>>

\* express.json (then xss-clean and express-mongo-sanitize): the body parses,
\* or the parser passes its error (status 400) to the error handler.
JsonBody ==
  /\ \E q \in InFlight, parses \in load.parses :
       /\ q.pc = "json"
       /\ Step(q, IF parses THEN Passed(q, "json", "global")
                            ELSE errorHandler(build, q, ParseError))
  /\ UNCHANGED <<build, env, load, gStore, cStore>>

\* Route dispatch after globalLimiter's next(): app.get("/health"), the
\* contact route's first middleware, or the 404 handler.
Dispatch(q) ==
  IF q.route = GetHealth
    THEN Respond(Passed(q, "global", "health"), 200, "health")
  ELSE IF q.route = PostContact
    THEN Passed(q, "global", "contact")
  ELSE Respond(Passed(q, "global", "notfound"), 404, "notfound")

\* app.use(globalLimiter)
globalLimiter ==
  /\ \E q \in InFlight :
       /\ q.pc = "global"
       /\ \/ /\ globalSkip(q.route)
             /\ Step(q, Dispatch(q))
             /\ UNCHANGED gStore
          \/ /\ ~globalSkip(q.route)
             /\ \E xff \in load.xffs :
                  LET key == globalKey(xff)
                      hits == Increment(gStore, key, globalWindowMs).hits
                      q1 == [q EXCEPT !.xff = xff]
                  IN  /\ hits <= globalMax + MaxOver
                      /\ gStore' = Counted(gStore, key, globalWindowMs, globalMax)
                      /\ Step(q, IF OverLimit(hits, globalMax)
                                   THEN Respond(q1, 429, "globalLimiter")
                                   ELSE Dispatch(q1))
  /\ UNCHANGED <<build, env, load, cStore>>

\* a contact limiter that counts in the global limiter's store
CountedInGlobalStore ==
  /\ \E q \in InFlight :
       LET key == contactKey(build, q.xff)
           hits == Increment(gStore, key, contactWindowMs).hits
       IN  /\ q.pc = "contact"
           /\ hits <= contactMax + MaxOver
           /\ gStore' = Counted(gStore, key, contactWindowMs, contactMax)
           /\ Step(q, IF OverLimit(hits, contactMax)
                        THEN Respond(q, 429, "contactLimiter")
                        ELSE Passed(q, "contact", "validate"))
  /\ UNCHANGED <<build, env, load, cStore>>

\* app.post("/contact", contactLimiter, ...)
contactLimiter ==
  /\ \E q \in InFlight :
       LET key == contactKey(build, q.xff)
           hits == Increment(cStore, key, contactWindowMs).hits
       IN  /\ q.pc = "contact"
           /\ hits <= contactMax + MaxOver
           /\ cStore' = Counted(cStore, key, contactWindowMs, contactMax)
           /\ Step(q, IF OverLimit(hits, contactMax)
                        THEN Respond(q, 429, "contactLimiter")
                        ELSE Passed(q, "contact", "validate"))
  /\ UNCHANGED <<build, env, load, gStore>>

\* app.post("/contact", ..., validateContactRequest, ...): a TypeError thrown
\* by the middleware is caught by the router and passed to the error handler.
Validate ==
  /\ \E q \in InFlight, body \in load.bodies :
       LET q1 == [q EXCEPT !.body = body]
           v == validateContactRequest(build, body)
       IN  /\ q.pc = "validate"
           /\ Step(q, IF v = "next" THEN Passed(q1, "validate", "handler")
                      ELSE IF v = "throw" THEN errorHandler(build, q1, TypeError)
                      ELSE Respond(q1, 400, v))
  /\ UNCHANGED <<build, env, load, gStore, cStore>>

\* The async handler up to its first await.  A TypeError raised before the
\* try block rejects the handler's promise: the router either never learns of
\* it and the request is left without a response (express 4), or passes it
\* to the error handler (express 5); the repository pins neither.
ContactHandler ==
  /\ \E q \in InFlight :
       /\ q.pc = "handler"
       /\ IF SanitizeThrows(q.body)
            THEN \/ Step(q, [q EXCEPT !.pc = "hung", !.threw = TRUE])
                 \/ Step(q, errorHandler(build, q, TypeError))
          ELSE IF ~Configured(env)
            THEN Step(q, Respond(Passed(q, "sanitize", "config"), 500, "config"))
          ELSE Step(q, [Passed(Passed(q, "sanitize", "config"), "config", "verify")
                          EXCEPT !.verifies = @ + 1])
  /\ UNCHANGED <<build, env, load, gStore, cStore>>

\* await transporter.verify() settles: sendMail is called, or the catch
\* block answers 503.
VerifyDone ==
  /\ \E q \in InFlight, ok \in BOOLEAN :
       /\ q.pc = "verify"
       /\ Step(q, IF ok
                    THEN [Passed(q, "verify", "send") EXCEPT
                            !.sends = @ + 1,
                            !.mail = OutboundMessage(build, q.body, q.xff)]
                    ELSE Respond(q, 503, "mail"))
  /\ UNCHANGED <<build, env, load, gStore, cStore>>

\* await transporter.sendMail(...) settles: 200 {success: true}, or the catch
\* block answers 503.
SendDone ==
  /\ \E q \in InFlight, ok \in BOOLEAN :
       /\ q.pc = "send"
       /\ Step(q, IF ok THEN Respond(Passed(q, "send", "done"), 200, "success")
                        ELSE Respond(q, 503, "mail"))
  /\ UNCHANGED <<build, env, load, gStore, cStore>>

\* The response has been written and the request's objects are dropped.
Finish ==
  /\ \E q \in InFlight :
       /\ q.pc = "done"
       /\ req' = req (-) SetToBag({q})
  /\ UNCHANGED <<build, env, load, gStore, cStore>>

\* Time passes.
Tick ==
  /\ gStore' = Later(gStore)
  /\ cStore' = Later(cStore)
  /\ UNCHANGED <<build, env, load, req>>

Next ==
  \/ Arrive
  \/ JsonBody
  \/ globalLimiter
  \/ contactLimiter
  \/ Validate
  \/ ContactHandler
  \/ VerifyDone
  \/ SendDone
  \/ Finish
  \/ Tick

Spec == Init /\ [][Next]_vars

\* The validator and the sanitizer on the edge values
SanitizerSpec == InitWith({Submitting}) /\ [][Next]_vars

(* ----------------------------- properties ----------------------------- *)
Stages(q) == {q.passed[i] : i \in 1..Len(q.passed)}

\* the order the stages of a request run in
StageOrder ==
  <<"cors", "json", "global", "contact", "validate", "sanitize", "config",
    "verify", "send">>

IsPrefix(s, u) == Len(s) <= Len(u) /\ \A i \in 1..Len(s) : s[i] = u[i]

\* q is the request the step has just worked on
Entered(q) == CopiesIn(q, req') > CopiesIn(q, req)

\* a limiter has counted a request in this step
ContactCounted == cStore' # cStore /\ req' # req
GlobalCounted == gStore' # gStore /\ req' # req

\* the count of the key's current window
LiveHits(e) == IF Elapsed(e) THEN 0 ELSE e.hits

\* C1: a request the contact limiter answers is answered 429 and has reached
\* neither the validator nor the mail relay.
C1_RejectedStopsThere ==
  \A q \in InFlight :
    q.by = "contactLimiter" =>
      /\ q.pc = "done" /\ q.status = 429
      /\ Stages(q) = {"cors", "json", "global"}
      /\ q.body = NoBody /\ q.verifies = 0 /\ q.sends = 0 /\ q.mail = NoMail

\* C1: the n-th request the contact limiter counts in a key's window goes on to
\* the validator when n <= 3 and is answered 429 when n > 3; a request that
\* arrives once the key's window has elapsed is the first of a new window of
\* 60 minutes.
C1_NthInWindow ==
  ContactCounted =>
    \A k \in Keys :
      cStore'[k] # cStore[k] =>
        LET nth == IF cStore[k].remaining <= 0 THEN 1 ELSE cStore[k].hits + 1
        IN  /\ cStore'[k].hits = nth
            /\ cStore[k].remaining <= 0 => cStore'[k].remaining = 60 * 60 * 1000
            /\ cStore[k].remaining > 0 => cStore'[k].remaining = cStore[k].remaining
            /\ \A q \in BagToSet(req') :
                 Entered(q) =>
                   IF nth <= 3
                     THEN q.pc = "validate" /\ q.status = 0
                     ELSE q.pc = "done" /\ q.status = 429 /\ q.by = "contactLimiter"

\* C1: for the requests sharing one contact-limiter key, the first 3 of a
\* window pass the contact limiter, the 4th and every later one of the window
\* is answered 429 and reaches neither the validator nor the mail relay, and
\* the first request after the window has elapsed passes again.
C1_ContactLimiter == [](C1_RejectedStopsThere) /\ [][C1_NthInWindow]_vars

\* C1, reached: a 4th request of a window was answered 429 and, the window
\* having elapsed since, a later request of the same key has passed the
\* contact limiter as the first of a new window.
C1_Witness ==
  \E q1 \in InFlight, q2 \in InFlight :
    /\ q1.by = "contactLimiter" /\ q1.status = 429
    /\ q2.pc = "validate" /\ q2.xff = q1.xff
    /\ cStore[contactKey(build, q2.xff)].hits = 1
    /\ cStore[contactKey(build, q2.xff)].accepted = 1

C3_AlwaysConfigurationError ==
  env # Required =>
    \A q \in InFlight :
      (q.route = PostContact /\ "validate" \in Stages(q) /\ q.pc # "handler") =>
        /\ q.pc = "done" /\ q.status = 500 /\ q.by = "config"
        /\ q.verifies = 0 /\ q.sends = 0

\* C3, the part the code keeps: with a required variable absent, no
\* POST /contact call creates, verifies or uses a transporter, whatever its
\* body and whatever preceded it, and every call whose handler reaches the
\* configuration check is answered with the configuration error (500).
C3_NoNetworkCall ==
  env # Required =>
    \A q \in InFlight :
      /\ q.verifies = 0 /\ q.sends = 0 /\ q.mail = NoMail
      /\ q.pc \notin {"verify", "send"}
      /\ Stages(q) \cap {"config", "verify", "send"} = {}
      /\ (q.pc = "done" /\ "sanitize" \in Stages(q)) => q.status = 500 /\ q.by = "config"

\* C3, the case the code handles, reached: a variable is absent and a call was
\* answered by the configuration check.
C3_Witness ==
  env # Required /\ \E q \in InFlight : q.by = "config" /\ q.status = 500

\* the names C4 is about: absent, not a string, trimmed length < 2, raw length > 100
BadName(name) ==
  \/ name.t # "string"
  \/ Len(Trim(name.s)) < 2
  \/ Len(name.s) > 100

\* C4: every submission the validator is given whose name is absent, not a
\* string, shorter than 2 once trimmed or longer than 100 is answered 400, and
\* no mail send is attempted for it.
C4_BadNameIs400 ==
  \A q \in InFlight :
    (q.pc \notin {"cors", "json", "global", "contact", "validate"}
       /\ "contact" \in Stages(q) /\ BadName(q.body.name)) =>
      q.pc = "done" /\ q.status = 400 /\ q.verifies = 0 /\ q.sends = 0

\* C5: every GET /health request is answered 200 by the health route, whatever
\* its Origin header and whatever came before.
C5_HealthAlwaysOk ==
  \A q \in InFlight :
    (q.route = GetHealth /\ q.pc = "done") => q.status = 200 /\ q.by = "health"

\* C6: a request in whose validator or handler an exception was raised is
\* answered, by the error handler, with status 500: it is never left without
\* a response.
C6_ExceptionIs500 ==
  \A q \in InFlight :
    (q.threw /\ "contact" \in Stages(q)) =>
      q.pc = "done" /\ q.status = 500 /\ q.by = "errorHandler"

FieldsValid(b, body) ==
  /\ ~BadName(body.name)
  /\ isValidEmail(body.email)
  /\ isValidUrl(b, body.url)
  /\ LET m == IF Truthy(body.message) THEN body.message ELSE body.description
     IN  ~Truthy(m) \/ (m.t = "string" /\ Len(m.s) <= 500)

\* C8: the stages a request has passed are an initial part of the order origin
\* guard, body parser, global limiter, contact limiter, validator, sanitizer,
\* configuration check, verify, send; a request answered by a stage has passed
\* no later one; and a request for which verify or send was attempted came
\* with an absent or allow-listed origin, was accepted by both limiters, has
\* four valid fields and a present configuration, and (for the send) a
\* successful verify.
C8_StageOrder ==
  \A q \in InFlight :
    /\ IsPrefix(q.passed, StageOrder)
    /\ q.route # PostContact => IsPrefix(q.passed, <<"cors", "json", "global">>)
    /\ (q.status = 403 \/ q.by = "globalLimiter") => Stages(q) \subseteq {"cors", "json"}
    /\ q.by = "contactLimiter" => Stages(q) = {"cors", "json", "global"}
    /\ q.status = 400 /\ q.route = PostContact /\ q.by # "errorHandler" =>
         Stages(q) = {"cors", "json", "global", "contact"} /\ q.verifies = 0
    /\ q.verifies > 0 =>
         /\ q.origin \in {"", "https://jalwan.app", "https://www.jalwan.app",
                          "http://localhost:3000", "http://localhost:3001"}
         /\ {"cors", "json", "global", "contact", "validate", "sanitize", "config"}
              \subseteq Stages(q)
         /\ FieldsValid(build, q.body)
         /\ env = Required
    /\ q.sends > 0 => "verify" \in Stages(q) /\ q.verifies > 0
    /\ q.by = "mail" /\ q.sends = 0 => "verify" \notin Stages(q)

\* C8, reached: a mail was sent for a request that passed every stage in order.
C8_Witness ==
  \E q \in InFlight :
    q.sends = 1 /\ q.passed = SubSeq(StageOrder, 1, 8) /\ q.pc = "send"

\* C9: a step in which the global limiter counts a request leaves the contact
\* limiter's store alone, and a request it rejects has not been counted by the
\* contact limiter; a step in which the contact limiter counts a request
\* leaves the global limiter's store alone, and that request has passed the
\* global limiter.
C9_Step ==
  /\ GlobalCounted =>
       /\ cStore' = cStore
       /\ \A q \in BagToSet(req') : Entered(q) => "contact" \notin Stages(q)
  /\ ContactCounted =>
       /\ gStore' = gStore
       /\ \A q \in BagToSet(req') :
            Entered(q) => "global" \in Stages(q) /\ q.route = PostContact
  /\ \A q \in BagToSet(req') :
       (Entered(q) /\ q.route = GetHealth) => gStore' = gStore /\ cStore' = cStore

\* C9: the two limiters keep separate counters and windows.
C9_SeparateCounters ==
  /\ [](\A q \in InFlight :
          /\ q.by = "globalLimiter" => "contact" \notin Stages(q)
          /\ "contact" \in Stages(q) => "global" \in Stages(q))
  /\ [][C9_Step]_vars

\* C9, reached: a caller's POST /contact is answered 429 by the contact limiter
\* while the global limiter's window for the caller is below its max.
C9_Witness ==
  \E q \in InFlight :
    /\ q.by = "contactLimiter" /\ q.status = 429
    /\ LiveHits(gStore[globalKey(q.xff)]) < 5
    /\ LiveHits(cStore[contactKey(build, q.xff)]) > 3

\* C9, also reachable (its negation is violated): a caller is answered 429 by
\* the global limiter while the contact limiter's count for it is below 3.
C9_GlobalBlocksFirst ==
  \E q \in InFlight :
    /\ q.by = "globalLimiter" /\ q.route = PostContact
    /\ LiveHits(cStore[contactKey(build, q.xff)]) < 3
    /\ LiveHits(gStore[globalKey(q.xff)]) > 5

\* the validator's rule for each field, on a sanitized value
NameRule(n) == n # <<>> /\ Len(Trim(n)) >= 2 /\ Len(n) <= 100
MessageRule(m) == Len(m) <= 500

\* C10: for every submission that passed validation and was sanitized, the
\* sanitizer applied to its own output changes nothing, its truncation changed
\* nothing, and every sanitized field satisfies the validator's rule for it.
C10_SanitizedIsValid ==
  \A q \in InFlight :
    "sanitize" \in Stages(q) =>
      LET n == sanitizedName(q.body.name.s)
          e == sanitizedEmail(build, q.body.email.s)
          m == sanitizedMessage(finalMessage(q.body).s)
      IN  /\ sanitizedName(n) = n
          /\ sanitizedEmail(build, e) = e
          /\ sanitizedMessage(m) = m
          /\ n = Trim(q.body.name.s)
          /\ m = Trim(finalMessage(q.body).s)
          /\ NameRule(n)
          /\ isValidEmail(Str(e))
          /\ MessageRule(m)

====
